---- MODULE Spec2Model ----
(***************************************************************************)
(* Verification / room-scan polling core of the operating-room asset       *)
(* tracking front end: VerificationPoller (both source variants, the       *)
(* XMLHttpRequest one and the fetch() one) and the VerificationService     *)
(* that drives it.                                                         *)
(*                                                                         *)
(* Spec      one VerificationPoller called directly by a host              *)
(* SpecFail  the same poller when every request fails (XHR variant)        *)
(* SpecSvc   VerificationService, its pollers and the page visibility      *)
(* SpecNorm  InstrumentsVerificationComponent: the views it computes from  *)
(*           the verification status it holds                              *)
(* SpecEq    one EquipmentPoller, its host and the page visibility         *)
(* SpecOut   OutboundTrackingComponent, its polling and its requests       *)
(***************************************************************************)
EXTENDS Integers, Sequences, FiniteSets, TLC

\* ------------------------------------------------------------------ bounds
MaxRequests == 4        \* requests issued in one run
MaxSubs == 2            \* callbacks registered with onUpdate on one poller
MaxImports == 2         \* startVerificationPolling calls in one run
MaxSvcRequests == 3     \* requests issued in one run of the service
MaxEntries == 2         \* items in one verification status
MaxNames == 1           \* distinct item names in one verification status
MaxCount == 2           \* largest count or quantity in a verification status
MaxCalls == 2           \* calls of the component's methods in one run
MaxTimers == 3          \* setInterval calls of one EquipmentPoller
MaxScans == 3           \* performScan calls of one EquipmentPoller
MaxSurgeries == 2       \* surgeries the outbound tracking page can select
MaxOutRequests == 3     \* requests the outbound tracking page issues in one run

\* ------------------------------------------------------ program constants
maxErrors == 3          \* this.maxErrors = 3

Pollers == 1..MaxImports  \* each call constructs at most one poller
Subs == 1..MaxSubs
SvcSub == 0             \* the callback VerificationService registers
Sessions == 1..2          \* valid operation session ids; 0 stands for an invalid one

VARIABLES
    variant,        \* "xhr" | "fetch": which VerificationPoller source is loaded
    created,        \* the pollers constructed so far
    sessionId,      \* [p] this.sessionId, 0 before construction
    callbacks,      \* [p] this.callbacks, a sequence of subscriber ids
    timerId,        \* [p] this.timerId, 0 is null
    armed,          \* the interval timers armed in the page, <<p, handle>>
    errorCount,     \* [p] this.errorCount
    lastUpdate,     \* [p] this.lastUpdate, 0 is null
    inflight,       \* requests sent and not yet settled
    nextReq,        \* id of the next request
    last,           \* the request the last step settled and the callback
                    \* invocations that made, in order; NoSettle otherwise (history)
    newestSnap,     \* [p] highest request id whose snapshot reached a callback (history)
    retries,        \* [p] requests answered with a non-terminal error since start() (history)
    terminals,      \* [p] requests answered with a terminal error since start() (history)
    fails,          \* [p] consecutive failed requests since start() or the last success (history)
    escaped,        \* an exception left a promise chain unhandled (history)
    op,             \* the poller method the last step called, with the errorCount,
                    \* timerId and armed timers it found; NoOp otherwise (history)
    verificationPoller, \* service: this.verificationPoller, 0 is null
    pollingActive,  \* service: this.pollingActive
    hidden,         \* document.hidden
    listeners,      \* visibilitychange listeners the service has registered
    pendingImports, \* dynamic imports not yet settled, one per start call
    nextImport,     \* id of the next dynamic import
    direct,         \* direct (fallback) HTTP requests in flight
    lastPub,        \* what the last step pushed on verificationStatus (history)
    termPub,        \* a terminal error was pushed since startVerificationPolling (history)
    hostStopped,    \* stopVerificationPolling() was the host's last polling call (history)
    pausedAt,       \* the poller the last hidden event paused, with its errorCount (history)
    resumed,        \* that poller's errorCount before the pause and after the next visible event (history)
    verificationStatus, \* component: this.verificationStatus
    returned,       \* the component method the last step called and what it returned (history)
    roomId,         \* EquipmentPoller: this.roomId, 0 is a missing id
    timer,          \* EquipmentPoller: this.timer, 0 is null
    updateCallback, \* EquipmentPoller: this.updateCallback is set
    errorCallback,  \* EquipmentPoller: this.errorCallback is set
    isActive,       \* EquipmentPoller: this.isActive
    registered,     \* EquipmentPoller: its visibilitychange listener is on the document
    intervals,      \* EquipmentPoller: the interval timers it armed and nobody cleared
    nextTimer,      \* handle the next setInterval returns
    scans,          \* EquipmentPoller: scan requests in flight
    nextScan,       \* id of the next performScan call
    destroyed,      \* destroy() was called (history)
    eqLast,         \* the EquipmentPoller step taken last and the callbacks it invoked (history)
    selectedSurgery,     \* outbound: this.selectedSurgery, 0 is null
    scanning,            \* outbound: this.scanning
    scanComplete,        \* outbound: this.scanComplete
    roomCleared,         \* outbound: this.roomCleared
    lastScanTimestamp,   \* outbound: this.lastScanTimestamp, 0 is null
    remainingItems,      \* outbound: this.remainingItems
    remainingInstruments,\* outbound: this.remainingInstruments
    remainingTrays,      \* outbound: this.remainingTrays
    extraItems,          \* outbound: this.extraItems
    extraInstruments,    \* outbound: this.extraInstruments
    extraTrays,          \* outbound: this.extraTrays
    usedItems,           \* outbound: this.usedItems
    pollingSubscription, \* outbound: this.pollingSubscription is set
    pending,             \* outbound: HTTP requests in flight, [id, kind]
    nextOutReq,          \* id of the next outbound request
    shown,               \* the request whose response filled the buckets last (history)
    outLast              \* the outbound step taken last and what it returned (history)

pollerVars == <<variant, created, sessionId, callbacks, timerId, armed, errorCount, lastUpdate,
                inflight, nextReq, last, newestSnap, retries, terminals, fails, escaped, op>>
svcVars == <<verificationPoller, pollingActive, hidden, listeners, pendingImports,
             nextImport, direct, lastPub, termPub, hostStopped, pausedAt, resumed>>
svcOther == <<verificationPoller, pollingActive, listeners, pendingImports,
              nextImport, direct, lastPub, termPub, hostStopped, pausedAt, resumed>>
normVars == <<verificationStatus, returned>>
eqVars == <<roomId, timer, updateCallback, errorCallback, isActive, registered, intervals,
            nextTimer, scans, nextScan, destroyed, eqLast>>
buckets == <<remainingItems, remainingInstruments, remainingTrays, extraItems,
             extraInstruments, extraTrays, usedItems>>
outVars == <<selectedSurgery, scanning, scanComplete, roomCleared, lastScanTimestamp,
             buckets, pollingSubscription, pending, nextOutReq, shown, outLast>>
vars == <<variant, created, sessionId, callbacks, timerId, armed, errorCount, lastUpdate,
          inflight, nextReq, last, newestSnap, retries, terminals, fails, escaped, op,
          verificationPoller, pollingActive, hidden, listeners, pendingImports,
          nextImport, direct, lastPub, termPub, hostStopped, pausedAt, resumed,
          verificationStatus, returned, eqVars, outVars>>

\* ------------------------------------------------------------- helpers
Min(S) == CHOOSE x \in S : \A y \in S : x <= y

Max(S) == CHOOSE x \in S : \A y \in S : x >= y

Range(s) == {s[i] : i \in DOMAIN s}

\* setInterval on the timers a: a handle no armed timer uses
NewHandle(a) == Min({h \in 1..(Cardinality(a) + 1) : \A t \in a : t[2] # h})

\* new Date(): the number of requests settled so far, counting this one
Now == nextReq - Cardinality(inflight)

NoSettle == [req |-> 0, p |-> 0, entries |-> <<>>]

NoPub == <<>>

NoPause == [p |-> 0, hide |-> 0, show |-> 0]

NoOp == [name |-> "none", p |-> 0, ec |-> 0, timer |-> 0, armed |-> {}]

ReqsOf(p) == {r \in inflight : r.p = p}

\* constructor: the fields of a fresh poller
InitPollerVars ==
    /\ callbacks = [p \in Pollers |-> <<>>]
    /\ timerId = [p \in Pollers |-> 0]
    /\ armed = {}
    /\ errorCount = [p \in Pollers |-> 0]
    /\ lastUpdate = [p \in Pollers |-> 0]
    /\ inflight = {}
    /\ nextReq = 1
    /\ last = NoSettle
    /\ newestSnap = [p \in Pollers |-> 0]
    /\ retries = [p \in Pollers |-> 0]
    /\ terminals = [p \in Pollers |-> 0]
    /\ fails = [p \in Pollers |-> 0]
    /\ escaped = FALSE
    /\ op = NoOp

\* VerificationService: its field initialisers
InitSvcVars ==
    /\ verificationPoller = 0
    /\ pollingActive = FALSE
    /\ hidden = FALSE
    /\ listeners = 0
    /\ pendingImports = {}
    /\ nextImport = 1
    /\ direct = {}
    /\ lastPub = NoPub
    /\ termPub = FALSE
    /\ hostStopped = FALSE
    /\ pausedAt = NoPause
    /\ resumed = NoPause

\* ------------------------------------------------- VerificationPoller
\* a call of the method name on poller p, and what it found
Call(name, p) ==
    [name |-> name, p |-> p, ec |-> errorCount[p], timer |-> timerId[p], armed |-> armed]

NewRequestNoScan(p, scan) == [id |-> nextReq, p |-> p, scan |-> FALSE, phase |-> "sent"]

\* fetchStatus(performScan): the request it sends
NewRequest(p, scan) == [id |-> nextReq, p |-> p, scan |-> scan, phase |-> "sent"]

ArmedWithoutStop(p) == armed

\* stop(): clearInterval(this.timerId); this.timerId = null
ArmedAfterStop(p) == armed \ {<<p, timerId[p]>>}

ShouldStopLate(ec) == ec > maxErrors

\* the threshold test of handleError and of the fetch variant's catch handler
ShouldStop(ec) == ec >= maxErrors

ErrorKind(ec) == IF ShouldStop(ec) THEN "terminal" ELSE "retry"

Entry(s, kind, ec) == [sub |-> s, kind |-> kind, ec |-> ec]

\* notifyCallbacks: every callback is invoked inside its own try/catch
NotifyCallbacks(p, kind, ec) ==
    [i \in 1..Len(callbacks[p]) |-> Entry(callbacks[p][i], kind, ec)]

\* callbacks.forEach(callback => callback(...)) without try/catch: the
\* callbacks up to and including the first one that throws are invoked
FirstThrow(cbs, T) ==
    IF \E i \in 1..Len(cbs) : cbs[i] \in T
    THEN Min({i \in 1..Len(cbs) : cbs[i] \in T})
    ELSE 0

ForEachCallbacks(p, kind, ec, T) ==
    LET k == FirstThrow(callbacks[p], T)
        n == IF k = 0 THEN Len(callbacks[p]) ELSE k
    IN [i \in 1..n |-> Entry(callbacks[p][i], kind, ec)]

HasKind(entries, kind) == \E i \in 1..Len(entries) : entries[i].kind = kind

\* bookkeeping of one settled request r that made the invocations es
Observe(r, failed, es) ==
    /\ last' = [req |-> r.id, p |-> r.p, entries |-> es]
    /\ op' = NoOp
    /\ fails' = [fails EXCEPT ![r.p] = IF failed THEN @ + 1 ELSE 0]
    /\ newestSnap' = IF HasKind(es, "snapshot")
                     THEN [newestSnap EXCEPT ![r.p] = Max({@, r.id})]
                     ELSE newestSnap
    /\ retries' = IF HasKind(es, "retry")
                  THEN [retries EXCEPT ![r.p] = @ + 1] ELSE retries
    /\ terminals' = IF HasKind(es, "terminal")
                    THEN [terminals EXCEPT ![r.p] = @ + 1] ELSE terminals

\* onUpdate(callback)
OnUpdate(p) ==
    /\ p \in created
    /\ Len(callbacks[p]) < MaxSubs
    /\ callbacks' = [callbacks EXCEPT ![p] = Append(@, Len(@) + 1)]
    /\ last' = NoSettle /\ op' = NoOp
    /\ UNCHANGED <<variant, created, sessionId, timerId, armed, errorCount, lastUpdate,
                   inflight, nextReq, newestSnap, retries, terminals, fails, escaped>>

StartPollerKeepsCount(p) ==
    /\ nextReq <= MaxRequests
    /\ errorCount' = errorCount
    /\ inflight' = inflight \cup {NewRequest(p, FALSE)}
    /\ nextReq' = nextReq + 1
    /\ timerId' = [timerId EXCEPT ![p] = NewHandle(ArmedAfterStop(p))]
    /\ armed' = ArmedAfterStop(p) \cup {<<p, NewHandle(ArmedAfterStop(p))>>}
    /\ retries' = [retries EXCEPT ![p] = 0]
    /\ terminals' = [terminals EXCEPT ![p] = 0]
    /\ fails' = [fails EXCEPT ![p] = 0]
    /\ last' = NoSettle
    /\ op' = Call("start", p)

\* start(): stop(); errorCount = 0; fetchStatus(); timerId = setInterval(...)
StartPoller(p) ==
    /\ nextReq <= MaxRequests
    /\ errorCount' = [errorCount EXCEPT ![p] = 0]
    /\ inflight' = inflight \cup {NewRequest(p, FALSE)}
    /\ nextReq' = nextReq + 1
    /\ timerId' = [timerId EXCEPT ![p] = NewHandle(ArmedAfterStop(p))]
    /\ armed' = ArmedAfterStop(p) \cup {<<p, NewHandle(ArmedAfterStop(p))>>}
    /\ retries' = [retries EXCEPT ![p] = 0]
    /\ terminals' = [terminals EXCEPT ![p] = 0]
    /\ fails' = [fails EXCEPT ![p] = 0]
    /\ last' = NoSettle
    /\ op' = Call("start", p)

\* stop()
StopPoller(p) ==
    /\ armed' = ArmedAfterStop(p)
    /\ timerId' = [timerId EXCEPT ![p] = 0]
    /\ last' = NoSettle
    /\ op' = Call("stop", p)

\* forceUpdate(): fetchStatus(true)
ForceUpdatePoller(p) ==
    /\ nextReq <= MaxRequests
    /\ inflight' = inflight \cup {NewRequest(p, TRUE)}
    /\ nextReq' = nextReq + 1
    /\ last' = NoSettle
    /\ op' = Call("forceUpdate", p)

Start(p) ==
    /\ p \in created
    /\ StartPoller(p)
    /\ UNCHANGED <<variant, created, sessionId, callbacks, lastUpdate, newestSnap, escaped>>

Stop(p) ==
    /\ p \in created
    /\ StopPoller(p)
    /\ UNCHANGED <<variant, created, sessionId, callbacks, errorCount, lastUpdate, inflight, nextReq,
                   newestSnap, retries, terminals, fails, escaped>>

ForceUpdate(p) ==
    /\ p \in created
    /\ ForceUpdatePoller(p)
    /\ UNCHANGED <<variant, created, sessionId, callbacks, timerId, armed, errorCount, lastUpdate,
                   newestSnap, retries, terminals, fails, escaped>>

\* the setInterval callback: () => this.fetchStatus()
TimerTick(p) ==
    /\ \E t \in armed : t[1] = p
    /\ nextReq <= MaxRequests
    /\ inflight' = inflight \cup {NewRequest(p, FALSE)}
    /\ nextReq' = nextReq + 1
    /\ last' = NoSettle /\ op' = NoOp
    /\ UNCHANGED <<variant, created, sessionId, callbacks, timerId, armed, errorCount, lastUpdate,
                   newestSnap, retries, terminals, fails, escaped>>

\* handleError(error), and the fetch variant's catch handler up to its
\* notification: errorCount++, stop() at the threshold
HandleErrorState(p) ==
    /\ errorCount' = [errorCount EXCEPT ![p] = @ + 1]
    /\ IF ShouldStop(errorCount[p] + 1)
       THEN /\ armed' = ArmedAfterStop(p)
            /\ timerId' = [timerId EXCEPT ![p] = 0]
       ELSE UNCHANGED <<armed, timerId>>

\* ---- XMLHttpRequest variant
XhrStatuses == {"ok", "badjson", "http"}

HandleErrorStamped(r) ==
    /\ HandleErrorState(r.p)
    /\ Observe(r, TRUE, NotifyCallbacks(r.p, ErrorKind(errorCount[r.p] + 1), errorCount[r.p] + 1))
    /\ lastUpdate' = [lastUpdate EXCEPT ![r.p] = Now]

\* handleError(error)
HandleError(r) ==
    /\ HandleErrorState(r.p)
    /\ Observe(r, TRUE, NotifyCallbacks(r.p, ErrorKind(errorCount[r.p] + 1), errorCount[r.p] + 1))
    /\ UNCHANGED lastUpdate

\* xhr.onload: 2xx with a body that parses is the success branch; a body
\* that does not parse and a non-2xx status go to handleError
XhrOnload(r, status) ==
    /\ variant = "xhr"
    /\ r \in inflight
    /\ inflight' = inflight \ {r}
    /\ IF status = "ok"
       THEN /\ errorCount' = [errorCount EXCEPT ![r.p] = 0]
            /\ lastUpdate' = [lastUpdate EXCEPT ![r.p] = Now]
            /\ Observe(r, FALSE, NotifyCallbacks(r.p, "snapshot", 0))
            /\ UNCHANGED <<armed, timerId>>
       ELSE HandleError(r)
    /\ UNCHANGED <<variant, created, sessionId, callbacks, nextReq, escaped>>

\* xhr.onerror
XhrOnerror(r) ==
    /\ variant = "xhr"
    /\ r \in inflight
    /\ inflight' = inflight \ {r}
    /\ HandleError(r)
    /\ UNCHANGED <<variant, created, sessionId, callbacks, nextReq, escaped>>

\* ---- fetch() variant
FetchResponses == {"json", "notjson", "http"}

\* .catch(error => ...): errorCount++, stop() at the threshold, then
\* callbacks.forEach with the error object; a callback that throws there
\* rejects the chain's last promise, which nothing handles.  pre are the
\* invocations the chain made before it threw.
CatchHandler(r, failed, pre, T) ==
    /\ HandleErrorState(r.p)
    /\ Observe(r, failed, pre \o ForEachCallbacks(r.p, ErrorKind(errorCount[r.p] + 1),
                                          errorCount[r.p] + 1, T))
    /\ escaped' = (escaped \/ FirstThrow(callbacks[r.p], T) # 0)
    /\ inflight' = inflight \ {r}

\* fetch() rejects: no response
FetchReject(r, T) ==
    /\ variant = "fetch"
    /\ r \in inflight
    /\ r.phase = "sent"
    /\ CatchHandler(r, TRUE, <<>>, T)
    /\ UNCHANGED <<variant, created, sessionId, callbacks, lastUpdate, nextReq>>

\* .then(response => ...): !response.ok and a non-JSON content type throw;
\* otherwise errorCount = 0 and the body is read with response.json()
FetchResolve(r, resp, T) ==
    /\ variant = "fetch"
    /\ r \in inflight
    /\ r.phase = "sent"
    /\ IF resp = "json"
       THEN /\ errorCount' = [errorCount EXCEPT ![r.p] = 0]
            /\ inflight' = (inflight \ {r}) \cup {[r EXCEPT !.phase = "parsing"]}
            /\ T = {}
            /\ last' = NoSettle /\ op' = NoOp
            /\ UNCHANGED <<armed, timerId, newestSnap, retries, terminals, fails, escaped>>
       ELSE CatchHandler(r, TRUE, <<>>, T)
    /\ UNCHANGED <<variant, created, sessionId, callbacks, lastUpdate, nextReq>>

\* response.json() settles.  Resolved: .then(data => ...) sets lastUpdate
\* and runs callbacks.forEach; a callback that throws there lands in the
\* catch handler.  Rejected (malformed body): the catch handler.
JsonSettle(r, ok, T1, T2) ==
    /\ variant = "fetch"
    /\ r \in inflight
    /\ r.phase = "parsing"
    /\ IF ok
       THEN /\ lastUpdate' = [lastUpdate EXCEPT ![r.p] = Now]
            /\ IF FirstThrow(callbacks[r.p], T1) = 0
               THEN /\ Observe(r, FALSE, ForEachCallbacks(r.p, "snapshot", 0, T1))
                    /\ T2 = {}
                    /\ inflight' = inflight \ {r}
                    /\ UNCHANGED <<errorCount, armed, timerId, escaped>>
               ELSE CatchHandler(r, FALSE, ForEachCallbacks(r.p, "snapshot", 0, T1), T2)
       ELSE /\ T1 = {}
            /\ CatchHandler(r, TRUE, <<>>, T2)
            /\ UNCHANGED lastUpdate
    /\ UNCHANGED <<variant, created, sessionId, callbacks, nextReq>>

\* the host subscribers of p, any of which may throw when invoked
Throwers(p) == SUBSET (Range(callbacks[p]) \cap Subs)

\* ----------------------------------- InstrumentsVerificationComponent
\* The verification status is the parsed JSON payload.  An object that maps
\* names to values is a sequence of [name, leaf] in key order; a field that
\* is not there (undefined) has present = FALSE.
Categories == {"missing", "used", "extra", "required"}

Types == {"instruments", "trays"}

Buckets == {"missing_items", "used_items", "extra_items", "required_items_status"}

ItemNames == 1..MaxNames

\* a leaf of missing_items, used_items, extra_items: a bare count n, or an
\* object whose quantity is n (no quantity when n = 0)
CountLeaves ==
    {[bare |-> TRUE, n |-> k, found |-> 0] : k \in 1..MaxCount}
        \cup {[bare |-> FALSE, n |-> k, found |-> 0] : k \in {0, MaxCount}}

\* a leaf of required_items_status: an object with required_quantity n and
\* found_quantity found
StatusLeaves ==
    {[bare |-> FALSE, n |-> k, found |-> f] : k \in {0, MaxCount}, f \in {0, MaxCount - 1}}

LeavesOf(b) == IF b = "required_items_status" THEN StatusLeaves ELSE CountLeaves

Undefined == [present |-> FALSE, items |-> <<>>]

NoBucket == [present |-> FALSE, instruments |-> Undefined, trays |-> Undefined]

\* tabs: not there, or with every tab holding one item
NoTabs == [present |-> FALSE, items |-> <<>>, count |-> 0]

TabsSamples ==
    {NoTabs,
     [present |-> TRUE, items |-> <<[name |-> 1, type |-> "instrument", quantity |-> 1]>>,
      count |-> 1]}

\* verificationStatus: VerificationStatus | null = null
NullStatus ==
    [isNull |-> TRUE, tabs |-> NoTabs, missing_items |-> NoBucket, used_items |-> NoBucket,
     extra_items |-> NoBucket, required_items_status |-> NoBucket]

NoReturn ==
    [fn |-> "none", category |-> "", type |-> "", name |-> 0, items |-> <<>>, bool |-> FALSE,
     calls |-> 0]

InitNormVars ==
    /\ verificationStatus = NullStatus
    /\ returned = NoReturn

\* ---- the payloads: at most MaxEntries items, each under a bucket and a
\* type, in the order the payload lists them, and at most one bucket or
\* sub-map that is not there
EntryOptions ==
    {e \in [bucket : Buckets, type : Types, name : ItemNames,
            leaf : CountLeaves \cup StatusLeaves] : e.leaf \in LeavesOf(e.bucket)}

EntrySeqs(max) ==
    {es \in UNION {[1..n -> EntryOptions] : n \in 0..max} :
        \A i, j \in DOMAIN es :
            (i # j /\ es[i].bucket = es[j].bucket /\ es[i].type = es[j].type)
                => es[i].name # es[j].name}

Paths == [bucket : Buckets, type : Types \cup {""}]

AbsentSets(es) ==
    {{}} \cup {{a} : a \in {x \in Paths : \A i \in DOMAIN es :
                                es[i].bucket # x.bucket \/ (x.type # "" /\ es[i].type # x.type)}}

Project(es) == [i \in DOMAIN es |-> [name |-> es[i].name, leaf |-> es[i].leaf]]

SubMapOf(es, abs, b, t) ==
    IF [bucket |-> b, type |-> t] \in abs
    THEN Undefined
    ELSE [present |-> TRUE,
          items |-> Project(SelectSeq(es, LAMBDA e : e.bucket = b /\ e.type = t))]

BucketOf(es, abs, b) ==
    IF [bucket |-> b, type |-> ""] \in abs
    THEN NoBucket
    ELSE [present |-> TRUE, instruments |-> SubMapOf(es, abs, b, "instruments"),
          trays |-> SubMapOf(es, abs, b, "trays")]

StatusOf(es, abs, tabs) ==
    [isNull |-> FALSE, tabs |-> tabs,
     missing_items |-> BucketOf(es, abs, "missing_items"),
     used_items |-> BucketOf(es, abs, "used_items"),
     extra_items |-> BucketOf(es, abs, "extra_items"),
     required_items_status |-> BucketOf(es, abs, "required_items_status")]

\* ---- the methods
\* getItemQuantity(item): !item gives 0; item.quantity || 1.  A number has
\* no quantity property.
getItemQuantity(item) ==
    IF item.bare
    THEN IF item.n = 0 THEN 0 ELSE 1
    ELSE IF item.n = 0 THEN 1 ELSE item.n

\* for (const name in map) result.push({name, type, quantity: getItemQuantity(map[name])})
PushAll(map, type) ==
    IF map.present
    THEN [i \in DOMAIN map.items |->
             [name |-> map.items[i].name, type |-> type,
              quantity |-> getItemQuantity(map.items[i].leaf)]]
    ELSE <<>>

\* getRequiredItems()
getRequiredItems ==
    LET rs == verificationStatus.required_items_status
        Entries(map, type) ==
            IF map.present
            THEN [i \in DOMAIN map.items |->
                     [name |-> map.items[i].name, type |-> type,
                      quantity |-> IF map.items[i].leaf.n = 0 THEN 1 ELSE map.items[i].leaf.n,
                      found_quantity |-> map.items[i].leaf.found,
                      data |-> map.items[i].leaf]]
            ELSE <<>>
    IN IF verificationStatus.isNull \/ ~rs.present
       THEN <<>>
       ELSE Entries(rs.instruments, "instrument") \o Entries(rs.trays, "tray")

getCombinedItemsOfAnyBucket(category) ==
    IF verificationStatus.isNull THEN <<>>
    ELSE IF verificationStatus.tabs.present THEN verificationStatus.tabs.items
    ELSE IF category \in {"missing", "used"}
         THEN PushAll(verificationStatus.missing_items.instruments, "instrument")
                  \o PushAll(verificationStatus.used_items.instruments, "instrument")
                  \o PushAll(verificationStatus.missing_items.trays, "tray")
                  \o PushAll(verificationStatus.used_items.trays, "tray")
    ELSE IF category = "required" THEN getRequiredItems
    ELSE <<>>

\* getCombinedItems(category): the tab's items when tabs is there; else
\* 'missing' and 'used' from their buckets, 'required' from
\* getRequiredItems(), and an empty result for anything else
getCombinedItems(category) ==
    IF verificationStatus.isNull THEN <<>>
    ELSE IF verificationStatus.tabs.present THEN verificationStatus.tabs.items
    ELSE IF category = "missing"
         THEN PushAll(verificationStatus.missing_items.instruments, "instrument")
                  \o PushAll(verificationStatus.missing_items.trays, "tray")
    ELSE IF category = "used"
         THEN PushAll(verificationStatus.used_items.instruments, "instrument")
                  \o PushAll(verificationStatus.used_items.trays, "tray")
    ELSE IF category = "required" THEN getRequiredItems
    ELSE <<>>

\* the bucket hasItems reads for a category
BucketFor(category) ==
    IF category = "missing" THEN verificationStatus.missing_items
    ELSE IF category = "used" THEN verificationStatus.used_items
    ELSE IF category = "extra" THEN verificationStatus.extra_items
    ELSE verificationStatus.required_items_status

\* hasItems(category, type): items && Object.keys(items).length > 0
hasItems(category, type) ==
    IF verificationStatus.isNull THEN FALSE
    ELSE LET b == BucketFor(category)
             items == IF type = "instruments" THEN b.instruments ELSE b.trays
         IN b.present /\ items.present /\ Len(items.items) > 0

\* hasCombinedItems(category)
hasCombinedItems(category) ==
    IF verificationStatus.isNull THEN FALSE
    ELSE IF verificationStatus.tabs.present THEN verificationStatus.tabs.count > 0
    ELSE Len(getCombinedItems(category)) > 0

\* Object.keys(map).includes(itemName), map[itemName]
HasKey(map, itemName) ==
    map.present /\ \E i \in DOMAIN map.items : map.items[i].name = itemName

LeafAt(map, itemName) ==
    map.items[CHOOSE i \in DOMAIN map.items : map.items[i].name = itemName].leaf

\* isItemMissing(itemName): with required_items_status, an item it lists is
\* missing when found_quantity < required_quantity; else an item of
\* used_items is not missing, and any other is missing when missing_items has it
isItemMissing(itemName) ==
    LET rs == verificationStatus.required_items_status
        used == verificationStatus.used_items
        missing == verificationStatus.missing_items
    IN IF verificationStatus.isNull THEN FALSE
       ELSE IF rs.present /\ HasKey(rs.instruments, itemName)
            THEN LeafAt(rs.instruments, itemName).found < LeafAt(rs.instruments, itemName).n
       ELSE IF rs.present /\ HasKey(rs.trays, itemName)
            THEN LeafAt(rs.trays, itemName).found < LeafAt(rs.trays, itemName).n
       ELSE IF HasKey(used.instruments, itemName) \/ HasKey(used.trays, itemName) THEN FALSE
       ELSE HasKey(missing.instruments, itemName) \/ HasKey(missing.trays, itemName)

\* ---- the calls the template makes
GetCombinedItemsDraining(category) ==
    /\ returned.calls < MaxCalls
    /\ returned' = [NoReturn EXCEPT !.fn = "getCombinedItems", !.category = category,
                                    !.items = getCombinedItems(category),
                                    !.calls = returned.calls + 1]
    /\ verificationStatus' = [verificationStatus EXCEPT !.missing_items = NoBucket,
                                                        !.used_items = NoBucket]

GetCombinedItems(category) ==
    /\ returned.calls < MaxCalls
    /\ returned' = [NoReturn EXCEPT !.fn = "getCombinedItems", !.category = category,
                                    !.items = getCombinedItems(category),
                                    !.calls = returned.calls + 1]
    /\ UNCHANGED verificationStatus

HasItems(category, type) ==
    /\ returned.calls < MaxCalls
    /\ returned' = [NoReturn EXCEPT !.fn = "hasItems", !.category = category, !.type = type,
                                    !.bool = hasItems(category, type),
                                    !.calls = returned.calls + 1]
    /\ UNCHANGED verificationStatus

HasCombinedItems(category) ==
    /\ returned.calls < MaxCalls
    /\ returned' = [NoReturn EXCEPT !.fn = "hasCombinedItems", !.category = category,
                                    !.bool = hasCombinedItems(category),
                                    !.calls = returned.calls + 1]
    /\ UNCHANGED verificationStatus

IsItemMissing(itemName) ==
    /\ returned.calls < MaxCalls
    /\ returned' = [NoReturn EXCEPT !.fn = "isItemMissing", !.name = itemName,
                                    !.bool = isItemMissing(itemName),
                                    !.calls = returned.calls + 1]
    /\ UNCHANGED verificationStatus

\* ------------------------------------------------------ EquipmentPoller
NoEqCall == [name |-> "none", invoked |-> {}]

\* constructor, for the room id it is given
InitEqVars(room) ==
    /\ roomId = room
    /\ timer = 0
    /\ updateCallback = FALSE
    /\ errorCallback = FALSE
    /\ isActive = FALSE
    /\ registered = TRUE
    /\ intervals = {}
    /\ nextTimer = 1
    /\ scans = {}
    /\ nextScan = 1
    /\ destroyed = FALSE
    /\ eqLast = NoEqCall

\* performScan(), called by the step name: without a room id it reports to
\* the error callback at once, otherwise it sends one scan request
PerformScan(name) ==
    /\ nextScan <= MaxScans
    /\ nextScan' = nextScan + 1
    /\ scans' = IF roomId = 0 THEN scans ELSE scans \cup {nextScan}
    /\ eqLast' = [name |-> name,
                  invoked |-> IF roomId = 0 /\ errorCallback THEN {"error"} ELSE {}]

\* this.timer = setInterval(this.performScan, this.updateInterval)
SetInterval ==
    /\ nextTimer <= MaxTimers
    /\ timer' = nextTimer
    /\ intervals' = intervals \cup {nextTimer}
    /\ nextTimer' = nextTimer + 1

\* if (this.timer) { clearInterval(this.timer); this.timer = null; }
ClearTimer ==
    /\ timer' = 0
    /\ intervals' = intervals \ {timer}
    /\ UNCHANGED nextTimer

EqStart ==
    /\ IF isActive
       THEN /\ eqLast' = [name |-> "start", invoked |-> {}]
            /\ UNCHANGED <<isActive, timer, intervals, nextTimer, scans, nextScan>>
       ELSE /\ isActive' = TRUE
            /\ PerformScan("start")
            /\ SetInterval
    /\ UNCHANGED <<roomId, updateCallback, errorCallback, registered, destroyed, hidden>>

EqStop ==
    /\ ClearTimer
    /\ isActive' = FALSE
    /\ eqLast' = [name |-> "stop", invoked |-> {}]
    /\ UNCHANGED <<roomId, updateCallback, errorCallback, registered, scans, nextScan,
                   destroyed, hidden>>

Destroy ==
    /\ ClearTimer
    /\ isActive' = FALSE
    /\ registered' = FALSE
    /\ updateCallback' = FALSE
    /\ errorCallback' = FALSE
    /\ destroyed' = TRUE
    /\ eqLast' = [name |-> "destroy", invoked |-> {}]
    /\ UNCHANGED <<roomId, scans, nextScan, hidden>>

EqOnUpdate(isFunction) ==
    /\ updateCallback' = (isFunction \/ updateCallback)
    /\ eqLast' = [name |-> "onUpdate", invoked |-> {}]
    /\ UNCHANGED <<roomId, timer, errorCallback, isActive, registered, intervals, nextTimer,
                   scans, nextScan, destroyed, hidden>>

OnError(isFunction) ==
    /\ errorCallback' = (isFunction \/ errorCallback)
    /\ eqLast' = [name |-> "onError", invoked |-> {}]
    /\ UNCHANGED <<roomId, timer, updateCallback, isActive, registered, intervals, nextTimer,
                   scans, nextScan, destroyed, hidden>>

ForceScan ==
    /\ PerformScan("forceScan")
    /\ UNCHANGED <<roomId, timer, updateCallback, errorCallback, isActive, registered,
                   intervals, nextTimer, destroyed, hidden>>

\* an armed interval timer fires
IntervalFires(h) ==
    /\ h \in intervals
    /\ PerformScan("interval")
    /\ UNCHANGED <<roomId, timer, updateCallback, errorCallback, isActive, registered,
                   intervals, nextTimer, destroyed, hidden>>

\* handleVisibilityChange(), with document.hidden as the event left it
HandleVisibilityChange(documentHidden) ==
    IF documentHidden
    THEN /\ ClearTimer
         /\ eqLast' = [name |-> "hidden", invoked |-> {}]
         /\ UNCHANGED <<scans, nextScan>>
    ELSE IF isActive
         THEN /\ PerformScan("visible")
              /\ SetInterval
         ELSE /\ eqLast' = [name |-> "visible", invoked |-> {}]
              /\ UNCHANGED <<timer, intervals, nextTimer, scans, nextScan>>

\* the page is hidden or shown: the document calls the listeners it holds
VisibilityChange ==
    /\ hidden' = ~hidden
    /\ IF registered
       THEN HandleVisibilityChange(~hidden)
       ELSE /\ eqLast' = [name |-> "visibilitychange", invoked |-> {}]
            /\ UNCHANGED <<timer, intervals, nextTimer, scans, nextScan>>
    /\ UNCHANGED <<roomId, updateCallback, errorCallback, isActive, registered, destroyed>>

\* the scan request s settles: fetch() resolves with an ok response and a
\* body ("ok"), with a response that is not ok, or rejects; the update
\* callback, when it runs, returns or throws into the .catch()
ScanOutcomes == {"ok", "notOk", "reject"}

ScanSettle(s, outcome, throws) ==
    /\ s \in scans
    /\ scans' = scans \ {s}
    /\ eqLast' =
          [name |-> "settle",
           invoked |->
               (IF outcome = "ok" /\ updateCallback THEN {"update"} ELSE {})
                   \cup (IF errorCallback
                            /\ (outcome # "ok" \/ (updateCallback /\ throws))
                         THEN {"error"} ELSE {})]
    /\ UNCHANGED <<roomId, timer, updateCallback, errorCallback, isActive, registered,
                   intervals, nextTimer, nextScan, destroyed, hidden>>

\* -------------------------------------------- OutboundTrackingComponent
\* An object that maps names to items is a sequence of [name, quantity] in
\* key order; quantity 0 is an item without a quantity.
Surgeries == 1..MaxSurgeries

ItemTypes == {"instrument", "Tray", "other"}

NoOutCall == [name |-> "none", req |-> 0, itemName |-> 0, itemType |-> "", bool |-> FALSE]

NoneShown == [req |-> 0, kind |-> "none"]

\* the field initialisers, then ngOnInit with the surgery the dashboard
\* selected (0: none), which starts the polling
InitOutVars(surgery) ==
    /\ selectedSurgery = surgery
    /\ scanning = FALSE
    /\ scanComplete = FALSE
    /\ roomCleared = FALSE
    /\ lastScanTimestamp = 0
    /\ remainingItems = <<>>
    /\ remainingInstruments = <<>>
    /\ remainingTrays = <<>>
    /\ extraItems = <<>>
    /\ extraInstruments = <<>>
    /\ extraTrays = <<>>
    /\ usedItems = <<>>
    /\ pollingSubscription = (surgery # 0)
    /\ pending = {}
    /\ nextOutReq = 1
    /\ shown = NoneShown
    /\ outLast = NoOutCall

\* the maps a response carries: empty or not there, or holding one item
OutMaps == {<<>>, <<[name |-> 1, quantity |-> MaxCount]>>}

\* OutboundTrackingResponse
OutResponses ==
    {[room_cleared |-> rc, scan_time |-> t,
      remaining_items |-> [instruments |-> ri, trays |-> rt],
      extra_items |-> [instruments |-> e, trays |-> e],
      used_items |-> [instruments |-> [i \in DOMAIN e |-> [name |-> 1, quantity |-> 0]],
                      trays |-> <<>>]] :
        rc \in BOOLEAN, t \in 0..1, ri \in OutMaps, rt \in OutMaps, e \in OutMaps}

\* Object.entries(map || {}).map(([name, item]) => ({...item, name, type,
\* quantity: item.quantity || 0, ...}))
Formatted(map, type) ==
    [i \in DOMAIN map |-> [name |-> map[i].name, type |-> type, quantity |-> map[i].quantity]]

\* itemType.toLowerCase() on the item types above
ToLowerCase(itemType) == IF itemType = "Tray" THEN "tray" ELSE itemType

OutCall(name) == [NoOutCall EXCEPT !.name = name]

\* startPolling(): stopPolling(), then a new interval subscription
StartPolling == pollingSubscription' = TRUE

processTrackingResponse(response) ==
    /\ roomCleared' = response.room_cleared
    /\ lastScanTimestamp' = response.scan_time
    /\ remainingInstruments' = Formatted(response.remaining_items.instruments, "instrument")
    /\ remainingTrays' = Formatted(response.remaining_items.trays, "tray")
    /\ remainingItems' = Formatted(response.remaining_items.instruments, "instrument")
                            \o Formatted(response.remaining_items.trays, "tray")
    /\ extraInstruments' = Formatted(response.extra_items.instruments, "instrument")
    /\ extraTrays' = Formatted(response.extra_items.trays, "tray")
    /\ extraItems' = Formatted(response.extra_items.instruments, "instrument")
                        \o Formatted(response.extra_items.trays, "tray")
    /\ usedItems' = Formatted(response.used_items.instruments, "instrument")
                       \o Formatted(response.used_items.trays, "tray")

SelectSurgery(surgery) ==
    /\ selectedSurgery' = surgery
    /\ scanComplete' = FALSE
    /\ remainingItems' = <<>>
    /\ remainingInstruments' = <<>>
    /\ remainingTrays' = <<>>
    /\ extraItems' = <<>>
    /\ extraInstruments' = <<>>
    /\ extraTrays' = <<>>
    /\ usedItems' = <<>>
    /\ roomCleared' = FALSE
    /\ StartPolling
    /\ shown' = NoneShown
    /\ outLast' = OutCall("selectSurgery")
    /\ UNCHANGED <<scanning, lastScanTimestamp, pending, nextOutReq>>

StartScan ==
    /\ IF selectedSurgery = 0
       THEN UNCHANGED <<scanning, pending, nextOutReq>>
       ELSE /\ nextOutReq <= MaxOutRequests
            /\ scanning' = TRUE
            /\ pending' = pending \cup {[id |-> nextOutReq, kind |-> "scan"]}
            /\ nextOutReq' = nextOutReq + 1
    /\ outLast' = OutCall("startScan")
    /\ UNCHANGED <<selectedSurgery, scanComplete, roomCleared, lastScanTimestamp, buckets,
                   pollingSubscription, shown>>

MarkComplete ==
    /\ IF selectedSurgery # 0
       THEN remainingItems' = <<>> /\ roomCleared' = TRUE
       ELSE UNCHANGED <<remainingItems, roomCleared>>
    /\ outLast' = OutCall("markComplete")
    /\ UNCHANGED <<selectedSurgery, scanning, scanComplete, lastScanTimestamp,
                   remainingInstruments, remainingTrays, extraItems, extraInstruments,
                   extraTrays, usedItems, pollingSubscription, pending, nextOutReq, shown>>

\* refreshOutboundStatus()
refreshOutboundStatus ==
    IF selectedSurgery = 0
    THEN UNCHANGED <<pending, nextOutReq>>
    ELSE /\ nextOutReq <= MaxOutRequests
         /\ pending' = pending \cup {[id |-> nextOutReq, kind |-> "status"]}
         /\ nextOutReq' = nextOutReq + 1

\* the polling interval emits
PollingTick ==
    /\ pollingSubscription
    /\ IF selectedSurgery # 0 /\ ~scanning
       THEN refreshOutboundStatus
       ELSE UNCHANGED <<pending, nextOutReq>>
    /\ outLast' = OutCall("tick")
    /\ UNCHANGED <<selectedSurgery, scanning, scanComplete, roomCleared, lastScanTimestamp,
                   buckets, pollingSubscription, shown>>

\* scanOutbound(): next
ScanNext(r, response) ==
    /\ r \in pending /\ r.kind = "scan"
    /\ pending' = pending \ {r}
    /\ scanning' = FALSE
    /\ scanComplete' = TRUE
    /\ processTrackingResponse(response)
    /\ shown' = [req |-> r.id, kind |-> "scan"]
    /\ outLast' = [OutCall("scanNext") EXCEPT !.req = r.id]
    /\ UNCHANGED <<selectedSurgery, pollingSubscription, nextOutReq>>

\* scanOutbound(): error
ScanError(r) ==
    /\ r \in pending /\ r.kind = "scan"
    /\ pending' = pending \ {r}
    /\ scanning' = FALSE
    /\ outLast' = [OutCall("scanError") EXCEPT !.req = r.id]
    /\ UNCHANGED <<selectedSurgery, scanComplete, roomCleared, lastScanTimestamp, buckets,
                   pollingSubscription, nextOutReq, shown>>

\* getOutboundStatus(): next
StatusNext(r, response) ==
    /\ r \in pending /\ r.kind = "status"
    /\ pending' = pending \ {r}
    /\ processTrackingResponse(response)
    /\ shown' = [req |-> r.id, kind |-> "status"]
    /\ outLast' = [OutCall("statusNext") EXCEPT !.req = r.id]
    /\ UNCHANGED <<selectedSurgery, scanning, scanComplete, pollingSubscription, nextOutReq>>

\* getOutboundStatus(): error
StatusError(r) ==
    /\ r \in pending /\ r.kind = "status"
    /\ pending' = pending \ {r}
    /\ outLast' = [OutCall("statusError") EXCEPT !.req = r.id]
    /\ UNCHANGED <<selectedSurgery, scanning, scanComplete, roomCleared, lastScanTimestamp,
                   buckets, pollingSubscription, nextOutReq, shown>>

isItemRemaining(itemName, itemType) ==
    IF ToLowerCase(itemType) = "instrument"
    THEN \E i \in DOMAIN remainingInstruments : remainingInstruments[i].name = itemName
    ELSE IF ToLowerCase(itemType) = "tray"
         THEN \E i \in DOMAIN remainingTrays : remainingTrays[i].name = itemName
         ELSE FALSE

\* the template calls isItemRemaining
IsItemRemaining(itemName, itemType) ==
    /\ outLast' = [name |-> "isItemRemaining", req |-> 0, itemName |-> itemName,
                   itemType |-> itemType, bool |-> isItemRemaining(itemName, itemType)]
    /\ UNCHANGED <<selectedSurgery, scanning, scanComplete, roomCleared, lastScanTimestamp,
                   buckets, pollingSubscription, pending, nextOutReq, shown>>

\* ------------------------------------------------------ specifications
Init ==
    /\ variant \in {"xhr", "fetch"}
    /\ created = {1}
    /\ sessionId = [p \in Pollers |-> IF p = 1 THEN 1 ELSE 0]
    /\ InitPollerVars
    /\ InitSvcVars
    /\ InitNormVars
    /\ InitEqVars(1)
    /\ InitOutVars(0)

Next ==
    \/ OnUpdate(1) /\ UNCHANGED <<svcVars, normVars, eqVars, outVars>>
    \/ Start(1) /\ UNCHANGED <<svcVars, normVars, eqVars, outVars>>
    \/ Stop(1) /\ UNCHANGED <<svcVars, normVars, eqVars, outVars>>
    \/ ForceUpdate(1) /\ UNCHANGED <<svcVars, normVars, eqVars, outVars>>
    \/ TimerTick(1) /\ UNCHANGED <<svcVars, normVars, eqVars, outVars>>
    \/ \E r \in inflight, st \in XhrStatuses : XhrOnload(r, st) /\ UNCHANGED <<svcVars, normVars, eqVars, outVars>>
    \/ \E r \in inflight : XhrOnerror(r) /\ UNCHANGED <<svcVars, normVars, eqVars, outVars>>
    \/ \E r \in inflight : \E T \in Throwers(r.p) : FetchReject(r, T) /\ UNCHANGED <<svcVars, normVars, eqVars, outVars>>
    \/ \E r \in inflight, resp \in FetchResponses : \E T \in Throwers(r.p) :
          FetchResolve(r, resp, T) /\ UNCHANGED <<svcVars, normVars, eqVars, outVars>>
    \/ \E r \in inflight, ok \in BOOLEAN : \E T1 \in Throwers(r.p), T2 \in Throwers(r.p) :
          JsonSettle(r, ok, T1, T2) /\ UNCHANGED <<svcVars, normVars, eqVars, outVars>>

Spec == Init /\ [][Next]_vars

\* the poller when every request fails and the host only starts it once
InitFail ==
    /\ variant = "xhr"
    /\ created = {1}
    /\ sessionId = [p \in Pollers |-> IF p = 1 THEN 1 ELSE 0]
    /\ InitPollerVars
    /\ InitSvcVars
    /\ InitNormVars
    /\ InitEqVars(1)
    /\ InitOutVars(0)

OnUpdateBeforeStart ==
    /\ nextReq = 1
    /\ OnUpdate(1)

StartOnce ==
    /\ nextReq = 1
    /\ Len(callbacks[1]) >= 1
    /\ Start(1)

XhrOnloadFail(r, status) ==
    /\ status # "ok"
    /\ XhrOnload(r, status)

NextFail ==
    \/ OnUpdateBeforeStart /\ UNCHANGED <<svcVars, normVars, eqVars, outVars>>
    \/ StartOnce /\ UNCHANGED <<svcVars, normVars, eqVars, outVars>>
    \/ TimerTick(1) /\ UNCHANGED <<svcVars, normVars, eqVars, outVars>>
    \/ \E r \in inflight, st \in XhrStatuses : XhrOnloadFail(r, st) /\ UNCHANGED <<svcVars, normVars, eqVars, outVars>>
    \/ \E r \in inflight : XhrOnerror(r) /\ UNCHANGED <<svcVars, normVars, eqVars, outVars>>

SpecFail == InitFail /\ [][NextFail]_vars

\* ------------------------------------------------ VerificationService
\* what the callback registered in startVerificationPolling pushes on
\* verificationStatus for the invocations of one settled request: the
\* data as it is, or a 'failed' status carrying data.error
PubOf(l) ==
    LET mine == SelectSeq(l.entries, LAMBDA e : e.sub = SvcSub)
    IN [i \in 1..Len(mine) |->
           [kind |-> IF mine[i].kind = "snapshot" THEN "data" ELSE "error",
            session |-> sessionId[l.p], req |-> l.req,
            terminal |-> mine[i].kind = "terminal"]]

HasTerminal(pubs) == \E i \in 1..Len(pubs) : pubs[i].terminal

\* removeEventListener('visibilitychange', this.handleVisibilityChange.bind(this)):
\* bind() makes a new function, which is not the one that was registered,
\* so no listener is removed
AfterRemoveListener(n) == n

\* stopVerificationPolling()
StopPolling ==
    IF verificationPoller # 0
    THEN /\ StopPoller(verificationPoller)
         /\ verificationPoller' = 0
         /\ pollingActive' = FALSE
         /\ listeners' = AfterRemoveListener(listeners)
    ELSE /\ last' = NoSettle /\ op' = NoOp
         /\ UNCHANGED <<armed, timerId, verificationPoller, pollingActive, listeners>>

\* fetchVerificationStatusDirect(sessionId): one HttpClient.get
DirectRequest(session) == [id |-> nextReq, session |-> session]

\* startVerificationPolling(sessionId): stopVerificationPolling(); an invalid
\* id throws into fallbackToDirectFetch; otherwise the dynamic import starts
StartVerificationPolling(session) ==
    /\ nextImport <= MaxImports
    /\ StopPolling
    /\ nextImport' = nextImport + 1
    /\ IF session = 0
       THEN /\ nextReq <= MaxRequests
            /\ direct' = direct \cup {DirectRequest(session)}
            /\ nextReq' = nextReq + 1
            /\ UNCHANGED pendingImports
       ELSE /\ pendingImports' = pendingImports \cup {[id |-> nextImport, session |-> session]}
            /\ UNCHANGED <<direct, nextReq>>
    /\ lastPub' = NoPub
    /\ termPub' = FALSE
    /\ hostStopped' = FALSE
    /\ UNCHANGED <<variant, created, sessionId, callbacks, errorCount, lastUpdate, inflight,
                   newestSnap, retries, terminals, fails, escaped, hidden, pausedAt>>
    /\ resumed' = NoPause

\* the import's then-handler: new VerificationPoller(...), onUpdate(...),
\* start(), pollingActive = true, addEventListener('visibilitychange', ...)
ImportResolve(i) ==
    /\ i \in pendingImports
    /\ Cardinality(created) < MaxImports
    /\ LET p == Cardinality(created) + 1 IN
        /\ created' = created \cup {p}
        /\ sessionId' = [sessionId EXCEPT ![p] = i.session]
        /\ callbacks' = [callbacks EXCEPT ![p] = <<SvcSub>>]
        /\ StartPoller(p)
        /\ verificationPoller' = p
    /\ pollingActive' = TRUE
    /\ listeners' = listeners + 1
    /\ pendingImports' = pendingImports \ {i}
    /\ lastPub' = NoPub
    /\ UNCHANGED <<variant, lastUpdate, newestSnap, escaped, hidden, nextImport, direct,
                   termPub, hostStopped, pausedAt>>
    /\ resumed' = NoPause

\* the import's catch-handler: fallbackToDirectFetch(sessionId)
ImportReject(i) ==
    /\ i \in pendingImports
    /\ nextReq <= MaxRequests
    /\ pendingImports' = pendingImports \ {i}
    /\ direct' = direct \cup {DirectRequest(i.session)}
    /\ nextReq' = nextReq + 1
    /\ last' = NoSettle /\ op' = NoOp
    /\ lastPub' = NoPub
    /\ UNCHANGED <<variant, created, sessionId, callbacks, timerId, armed, errorCount,
                   lastUpdate, inflight, newestSnap, retries, terminals, fails, escaped,
                   verificationPoller, pollingActive, hidden, listeners, nextImport,
                   termPub, hostStopped, pausedAt>>
    /\ resumed' = NoPause

\* the subscribe handlers of fetchVerificationStatusDirect: next pushes the
\* data, error only logs
DirectSettle(d, ok) ==
    /\ d \in direct
    /\ direct' = direct \ {d}
    /\ lastPub' = IF ok
                  THEN <<[kind |-> "data", session |-> d.session, req |-> d.id,
                          terminal |-> FALSE]>>
                  ELSE NoPub
    /\ last' = NoSettle /\ op' = NoOp
    /\ UNCHANGED <<variant, created, sessionId, callbacks, timerId, armed, errorCount,
                   lastUpdate, inflight, nextReq, newestSnap, retries, terminals, fails,
                   escaped, verificationPoller, pollingActive, hidden, listeners,
                   pendingImports, nextImport, termPub, hostStopped, pausedAt>>
    /\ resumed' = NoPause

\* stopVerificationPolling() called by the host
StopVerificationPolling ==
    /\ StopPolling
    /\ hostStopped' = TRUE
    /\ lastPub' = NoPub
    /\ UNCHANGED <<variant, created, sessionId, callbacks, errorCount, lastUpdate, inflight,
                   nextReq, newestSnap, retries, terminals, fails, escaped, hidden,
                   pendingImports, nextImport, direct, termPub, pausedAt>>
    /\ resumed' = NoPause

\* forceUpdate() of the service
SvcForceUpdate ==
    /\ verificationPoller # 0
    /\ ForceUpdatePoller(verificationPoller)
    /\ lastPub' = NoPub
    /\ UNCHANGED <<variant, created, sessionId, callbacks, timerId, armed, errorCount,
                   lastUpdate, newestSnap, retries, terminals, fails, escaped,
                   verificationPoller, pollingActive, hidden, listeners, pendingImports,
                   nextImport, direct, termPub, hostStopped, pausedAt>>
    /\ resumed' = NoPause

\* visibilitychange with document.hidden = true.  Every registered listener
\* runs handleVisibilityChange; its hidden branch, stop() of the poller when
\* pollingActive, has the same effect run once or several times.
PageHidden ==
    /\ ~hidden
    /\ hidden' = TRUE
    /\ IF listeners > 0 /\ verificationPoller # 0 /\ pollingActive
       THEN /\ StopPoller(verificationPoller)
            /\ pausedAt' = IF timerId[verificationPoller] # 0
                           THEN [p |-> verificationPoller,
                                 hide |-> errorCount[verificationPoller], show |-> 0]
                           ELSE NoPause
       ELSE /\ last' = NoSettle /\ op' = NoOp
            /\ pausedAt' = NoPause
            /\ UNCHANGED <<armed, timerId>>
    /\ resumed' = NoPause
    /\ lastPub' = NoPub
    /\ UNCHANGED <<variant, created, sessionId, callbacks, errorCount, lastUpdate, inflight,
                   nextReq, newestSnap, retries, terminals, fails, escaped,
                   verificationPoller, pollingActive, listeners, pendingImports,
                   nextImport, direct, termPub, hostStopped>>

\* the else-branch of handleVisibilityChange
ResumeCondition == verificationPoller # 0 /\ ~pollingActive

\* visibilitychange with document.hidden = false.  The visible branch of
\* handleVisibilityChange starts the poller and sets pollingActive, after
\* which the branch is closed to the listeners that run next.
PageVisible ==
    /\ hidden
    /\ hidden' = FALSE
    /\ IF listeners > 0 /\ ResumeCondition
       THEN /\ StartPoller(verificationPoller)
            /\ pollingActive' = TRUE
       ELSE /\ last' = NoSettle /\ op' = NoOp
            /\ UNCHANGED <<armed, timerId, errorCount, inflight, nextReq, retries,
                           terminals, fails, pollingActive>>
    /\ resumed' = IF pausedAt.p # 0 /\ pausedAt.p = verificationPoller
                  THEN [pausedAt EXCEPT !.show = errorCount'[verificationPoller]]
                  ELSE NoPause
    /\ pausedAt' = NoPause
    /\ lastPub' = NoPub
    /\ UNCHANGED <<variant, created, sessionId, callbacks, lastUpdate, newestSnap, escaped,
                   verificationPoller, listeners, pendingImports, nextImport, direct,
                   termPub, hostStopped>>

\* a poller step seen from the service: the registered callback pushes
\* what it is invoked with
Pushed ==
    /\ lastPub' = PubOf(last')
    /\ termPub' = (termPub \/ HasTerminal(PubOf(last')))
    /\ resumed' = NoPause
    /\ UNCHANGED <<verificationPoller, pollingActive, hidden, listeners, pendingImports,
                   nextImport, direct, hostStopped, pausedAt>>

InitSvc ==
    /\ variant \in {"xhr", "fetch"}
    /\ created = {}
    /\ sessionId = [p \in Pollers |-> 0]
    /\ InitPollerVars
    /\ InitSvcVars
    /\ InitNormVars
    /\ InitEqVars(1)
    /\ InitOutVars(0)

\* the run may still send a request
SvcBudget == nextReq <= MaxSvcRequests

NextSvc ==
    \/ \E session \in {0} \cup Sessions : SvcBudget /\ StartVerificationPolling(session) /\ UNCHANGED <<normVars, eqVars, outVars>>
    \/ \E i \in pendingImports : SvcBudget /\ ImportResolve(i) /\ UNCHANGED <<normVars, eqVars, outVars>>
    \/ \E i \in pendingImports : SvcBudget /\ ImportReject(i) /\ UNCHANGED <<normVars, eqVars, outVars>>
    \/ \E d \in direct, ok \in BOOLEAN : DirectSettle(d, ok) /\ UNCHANGED <<normVars, eqVars, outVars>>
    \/ StopVerificationPolling /\ UNCHANGED <<normVars, eqVars, outVars>>
    \/ SvcBudget /\ SvcForceUpdate /\ UNCHANGED <<normVars, eqVars, outVars>>
    \/ PageHidden /\ UNCHANGED <<normVars, eqVars, outVars>>
    \/ PageVisible /\ UNCHANGED <<normVars, eqVars, outVars>>
    \/ \E p \in created : SvcBudget /\ TimerTick(p) /\ Pushed /\ UNCHANGED <<normVars, eqVars, outVars>>
    \/ \E r \in inflight, st \in XhrStatuses : XhrOnload(r, st) /\ Pushed /\ UNCHANGED <<normVars, eqVars, outVars>>
    \/ \E r \in inflight : XhrOnerror(r) /\ Pushed /\ UNCHANGED <<normVars, eqVars, outVars>>
    \/ \E r \in inflight : FetchReject(r, {}) /\ Pushed /\ UNCHANGED <<normVars, eqVars, outVars>>
    \/ \E r \in inflight, resp \in FetchResponses : FetchResolve(r, resp, {}) /\ Pushed /\ UNCHANGED <<normVars, eqVars, outVars>>
    \/ \E r \in inflight, ok \in BOOLEAN : JsonSettle(r, ok, {}, {}) /\ Pushed /\ UNCHANGED <<normVars, eqVars, outVars>>

SpecSvc == InitSvc /\ [][NextSvc]_vars

\* the component holding any status the service may have pushed
InitNorm ==
    /\ variant = "xhr"
    /\ created = {}
    /\ sessionId = [p \in Pollers |-> 0]
    /\ InitPollerVars
    /\ InitSvcVars
    /\ \E es \in EntrySeqs(MaxEntries) : \E abs \in AbsentSets(es), tabs \in TabsSamples :
          verificationStatus \in {NullStatus, StatusOf(es, abs, tabs)}
    /\ returned = NoReturn
    /\ InitEqVars(1)
    /\ InitOutVars(0)

NextNorm ==
    \/ \E category \in Categories : GetCombinedItems(category) /\ UNCHANGED <<pollerVars, svcVars, eqVars, outVars>>
    \/ \E category \in Categories, type \in Types :
          HasItems(category, type) /\ UNCHANGED <<pollerVars, svcVars, eqVars, outVars>>
    \/ \E category \in Categories : HasCombinedItems(category) /\ UNCHANGED <<pollerVars, svcVars, eqVars, outVars>>
    \/ \E itemName \in ItemNames : IsItemMissing(itemName) /\ UNCHANGED <<pollerVars, svcVars, eqVars, outVars>>

SpecNorm == InitNorm /\ [][NextNorm]_vars

\* ---- one EquipmentPoller; its owner drops it after destroy()
InitEq ==
    /\ variant = "xhr"
    /\ created = {}
    /\ sessionId = [p \in Pollers |-> 0]
    /\ InitPollerVars
    /\ InitSvcVars
    /\ InitNormVars
    /\ \E room \in 0..1 : InitEqVars(room)
    /\ InitOutVars(0)

EqRest == <<pollerVars, svcOther, normVars, outVars>>

NextEq ==
    \/ ~destroyed /\ EqStart /\ UNCHANGED EqRest
    \/ ~destroyed /\ EqStop /\ UNCHANGED EqRest
    \/ ~destroyed /\ Destroy /\ UNCHANGED EqRest
    \/ \E isFunction \in BOOLEAN : ~destroyed /\ EqOnUpdate(isFunction) /\ UNCHANGED EqRest
    \/ \E isFunction \in BOOLEAN : ~destroyed /\ OnError(isFunction) /\ UNCHANGED EqRest
    \/ ~destroyed /\ ForceScan /\ UNCHANGED EqRest
    \/ \E h \in intervals : IntervalFires(h) /\ UNCHANGED EqRest
    \/ VisibilityChange /\ UNCHANGED EqRest
    \/ \E s \in scans, outcome \in ScanOutcomes, throws \in BOOLEAN :
          ScanSettle(s, outcome, throws) /\ UNCHANGED EqRest

SpecEq == InitEq /\ [][NextEq]_vars

\* ---- OutboundTrackingComponent
InitOut ==
    /\ variant = "xhr"
    /\ created = {}
    /\ sessionId = [p \in Pollers |-> 0]
    /\ InitPollerVars
    /\ InitSvcVars
    /\ InitNormVars
    /\ InitEqVars(1)
    /\ \E surgery \in {0} \cup Surgeries : InitOutVars(surgery)

OutRest == <<pollerVars, svcVars, normVars, eqVars>>

NextOut ==
    \/ \E surgery \in Surgeries : SelectSurgery(surgery) /\ UNCHANGED OutRest
    \/ StartScan /\ UNCHANGED OutRest
    \/ MarkComplete /\ UNCHANGED OutRest
    \/ PollingTick /\ UNCHANGED OutRest
    \/ \E r \in pending, response \in OutResponses : ScanNext(r, response) /\ UNCHANGED OutRest
    \/ \E r \in pending : ScanError(r) /\ UNCHANGED OutRest
    \/ \E r \in pending, response \in OutResponses : StatusNext(r, response) /\ UNCHANGED OutRest
    \/ \E r \in pending : StatusError(r) /\ UNCHANGED OutRest
    \/ \E itemName \in ItemNames, itemType \in ItemTypes :
          IsItemRemaining(itemName, itemType) /\ UNCHANGED OutRest

SpecOut == InitOut /\ [][NextOut]_vars

\* ------------------------------------------------------------- claims
\* the step is a start() of p
StartedNow(p) == timerId'[p] # 0 /\ fails'[p] = 0 /\ \E r \in inflight' : r.p = p /\ r.id = nextReq

\* the step sends no request for p
NoNewRequest(p) == \A r \in inflight' : r.p = p => r.id # nextReq

\* C1: once maxErrors consecutive requests of a poller have failed since its
\* last start(), its timer is cleared and no request is sent for it until
\* start() is called again.
C1_StopsUntilStart ==
    [][\A p \in Pollers :
          fails[p] >= maxErrors => (timerId[p] = 0 /\ (StartedNow(p) \/ NoNewRequest(p)))]_vars

\* C3: a poller never has two requests outstanding at once.
C3_OneOutstanding == \A p \in Pollers : Cardinality(ReqsOf(p)) <= 1

\* C4: a response that arrives after stop() is discarded: no callback is
\* invoked, lastUpdate and errorCount keep their values, nothing is
\* published.  A request sent by start() or by a timer tick that settles
\* while timerId is null is such a response: both send it with the timer armed.
C4_DiscardAfterStop ==
    [][\A r \in inflight :
          (last'.req = r.id /\ ~r.scan /\ timerId[r.p] = 0)
              => (last'.entries = <<>> /\ errorCount' = errorCount
                    /\ lastUpdate' = lastUpdate /\ lastPub' = NoPub)]_vars

\* C5: snapshots reach the callbacks in request order: no snapshot is
\* delivered after the snapshot of a request sent later.
C5_SnapshotsInRequestOrder ==
    (last.req # 0 /\ HasKind(last.entries, "snapshot")) => last.req >= newestSnap[last.p]

\* number of invocations of subscriber s in the entries es
Invocations(es, s) == Cardinality({i \in 1..Len(es) : es[i].sub = s})

\* C6: a settled request has invoked every registered callback exactly once,
\* with a snapshot or with an error.
C6_OneEventPerAttempt ==
    last.req # 0 =>
        \A s \in Range(callbacks[last.p]) : Invocations(last.entries, s) = 1

C8_OneTerminalPerLifecycle ==
    \A p \in Pollers : terminals[p] <= 1 /\ (terminals[p] = 1 => timerId[p] = 0)

\* C2: a hidden event clears the timer of the service's poller, and the
\* next visible event of a session the hidden event paused sends one
\* request at once and arms the timer again.
C2_PauseAndResume ==
    [][/\ (~hidden /\ hidden' /\ verificationPoller # 0)
            => timerId'[verificationPoller] = 0
       /\ (hidden /\ ~hidden' /\ pausedAt.p # 0 /\ pausedAt.p = verificationPoller)
            => /\ timerId'[verificationPoller] # 0
               /\ \E r \in inflight' :
                     r.p = verificationPoller /\ r.id = nextReq /\ ~r.scan]_vars

\* no timer is armed, no request or import is pending: nothing will fetch
Ceased == armed = {} /\ inflight = {} /\ direct = {} /\ pendingImports = {}

\* C9: when fetching for a session has ceased and the host did not call
\* stopVerificationPolling(), a terminal error has been pushed on the
\* status stream since startVerificationPolling().
C9_TerminalSignal ==
    (nextImport > 1 /\ ~hostStopped /\ Ceased) => termPub

\* C10: after a hidden-then-visible cycle of a polling session errorCount
\* has the value it had when the page was hidden.
C10_PauseKeepsErrorCount ==
    resumed.p # 0 => resumed.show = resumed.hide

\* C11: once the host has stopped polling and no import is pending, no
\* visibilitychange listener of the service is left registered.
C11_ListenersRemoved ==
    (hostStopped /\ verificationPoller = 0 /\ pendingImports = {}) => listeners = 0

\* C12: while the service holds the poller of a session, nothing that
\* belongs to another session (one started with a valid id) is pushed on
\* the status stream.
C12_SessionsIsolated ==
    verificationPoller # 0 =>
        \A i \in 1..Len(lastPub) :
            lastPub[i].session \in Sessions => lastPub[i].session = sessionId[verificationPoller]

\* the timers of poller p that are armed
TimersOf(p) == {t \in armed : t[1] = p}

\* C13: start(), with the timer armed or not, sends exactly one request, a
\* request without scan, in the call itself, and leaves exactly one timer armed.
C13_StartFetchesOnce ==
    [][op'.name = "start" =>
          /\ \E r \in inflight' :
                /\ r \notin inflight /\ inflight' = inflight \cup {r}
                /\ r.p = op'.p /\ r.id = nextReq /\ ~r.scan /\ r.phase = "sent"
          /\ timerId'[op'.p] # 0
          /\ {t \in armed' : t[1] = op'.p} = {<<op'.p, timerId'[op'.p]>>}]_vars

C13_Witness ==
    /\ op.name = "start" /\ op.timer # 0 /\ op.armed # {}
    /\ Cardinality(TimersOf(op.p)) = 1
    /\ \E r \in inflight : r.id = nextReq - 1 /\ ~r.scan

\* C14: a request that succeeds leaves errorCount at 0, and the terminal
\* event is given only after maxErrors failures with no success between them.
C14_SuccessResetsErrorCount ==
    /\ (last.req # 0 /\ HasKind(last.entries, "snapshot")) => errorCount[last.p] = 0
    /\ (last.req # 0 /\ HasKind(last.entries, "terminal")) => fails[last.p] >= maxErrors

\* C15: start() leaves errorCount at 0 whatever it was before, also when
\* the poller had stopped itself at the threshold or had been stopped.
C15_StartResetsErrorCount ==
    op.name = "start" => errorCount[op.p] = 0

C15_Witness ==
    /\ op.name = "start" /\ op.ec >= maxErrors /\ op.timer = 0 /\ op.armed = {}
    /\ errorCount[op.p] = 0

\* C16: forceUpdate() sends one request, with scan = true, and leaves the
\* timer handle and the armed timers as they were.
C16_ForceUpdateKeepsTimer ==
    [][op'.name = "forceUpdate" =>
          /\ \E r \in inflight' :
                /\ r \notin inflight /\ inflight' = inflight \cup {r}
                /\ r.p = op'.p /\ r.id = nextReq /\ r.scan
          /\ timerId' = timerId
          /\ armed' = armed]_vars

C16_Witness ==
    /\ op.name = "forceUpdate" /\ op.timer # 0
    /\ timerId[op.p] = op.timer /\ armed = op.armed
    /\ \E r \in inflight : r.id = nextReq - 1 /\ r.scan

\* C17: lastUpdate is null at first and changes only in the step in which
\* a request of the poller succeeds; a failed request, start(), stop() and
\* forceUpdate() leave it as it is.
C17_LastUpdateOnlyOnSuccess ==
    [][\A p \in Pollers :
          lastUpdate'[p] # lastUpdate[p] =>
              (last'.req # 0 /\ last'.p = p /\ fails'[p] = 0 /\ lastUpdate'[p] # 0)]_vars

C17_Witness ==
    /\ last.req # 0 /\ fails[last.p] > 0
    /\ lastUpdate[last.p] # 0 /\ lastUpdate[last.p] < nextReq - Cardinality(inflight) - 1

\* C18: a 2xx response whose body does not parse is a failure like any
\* other, also when no callback throws: errorCount then counts the
\* consecutive failures, every callback is invoked once with an error, and
\* no exception is left unhandled.
C18_MalformedBodyIsFailure ==
    [][\A r \in inflight :
          (XhrOnload(r, "badjson") \/ JsonSettle(r, FALSE, {}, {}))
              => /\ errorCount'[r.p] = fails'[r.p]
                 /\ \A s \in Range(callbacks[r.p]) : Invocations(last'.entries, s) = 1
                 /\ ~HasKind(last'.entries, "snapshot")
                 /\ escaped' = escaped]_vars

\* the count a payload leaf gives: the bare count, or the object's quantity,
\* and 1 when the object has none
CountOf(leaf) == IF leaf.bare THEN leaf.n ELSE IF leaf.n = 0 THEN 1 ELSE leaf.n

\* one record per name of the sub-map, with the payload's count
RecordsOf(map, type) ==
    [i \in DOMAIN map.items |->
        [name |-> map.items[i].name, type |-> type, quantity |-> CountOf(map.items[i].leaf)]]

\* C19: for a status without tabs, getCombinedItems('missing') and
\* getCombinedItems('used') return one record per name, instruments before
\* trays, each with its type and with the quantity the payload gives.
C19_QuantityFromPayload ==
    (returned.fn = "getCombinedItems" /\ returned.category \in {"missing", "used"}
        /\ ~verificationStatus.isNull /\ ~verificationStatus.tabs.present)
    => LET b == BucketFor(returned.category)
       IN returned.items = RecordsOf(b.instruments, "instrument") \o RecordsOf(b.trays, "tray")

\* C20: for a status without tabs, getCombinedItems('extra') returns one
\* record per name of extra_items.instruments and then of extra_items.trays,
\* and hasCombinedItems('extra') is true exactly when hasItems('extra', ...)
\* is true for instruments or for trays.
C20_ExtraBucketCovered ==
    (returned.category = "extra" /\ ~verificationStatus.isNull /\ ~verificationStatus.tabs.present)
    => /\ returned.fn = "getCombinedItems" =>
              [i \in DOMAIN returned.items |-> returned.items[i].name]
                  = [i \in 1..Len(verificationStatus.extra_items.instruments.items
                                    \o verificationStatus.extra_items.trays.items) |->
                        (verificationStatus.extra_items.instruments.items
                            \o verificationStatus.extra_items.trays.items)[i].name]
       /\ returned.fn = "hasCombinedItems" =>
              (returned.bool <=> (hasItems("extra", "instruments") \/ hasItems("extra", "trays")))

\* C21: isItemMissing(name) is false for every name that is a key of
\* used_items.instruments or of used_items.trays, with or without
\* required_items_status.
C21_PresentNeverMissing ==
    (returned.fn = "isItemMissing"
        /\ (HasKey(verificationStatus.used_items.instruments, returned.name)
               \/ HasKey(verificationStatus.used_items.trays, returned.name)))
    => ~returned.bool

\* the records getCombinedItems makes of one sub-map, none when it is not there
Normalized(map, type) ==
    IF map.present
    THEN [i \in DOMAIN map.items |->
             [name |-> map.items[i].name, type |-> type,
              quantity |-> getItemQuantity(map.items[i].leaf)]]
    ELSE <<>>

C24_OnePollerArmed ==
    /\ Cardinality({p \in created : timerId[p] # 0}) <= 1
    /\ hostStopped => armed = {}

\* C26: pollingActive is true exactly when the service holds a poller
\* whose timer is armed.
C26_PollingActiveMeansArmed ==
    pollingActive <=> (verificationPoller # 0 /\ timerId[verificationPoller] # 0)

\* C27: errorCount stays within 0..maxErrors, and every non-terminal error
\* event carries an errorCount of at least 1 and below maxErrors.
C27_ErrorCountInRange ==
    /\ \A p \in Pollers : errorCount[p] >= 0 /\ errorCount[p] <= maxErrors
    /\ \A i \in 1..Len(last.entries) :
          last.entries[i].kind = "retry"
              => (last.entries[i].ec >= 1 /\ last.entries[i].ec < maxErrors)

\* C25: an EquipmentPoller never has two interval timers armed, and after
\* stop() none of the timers it armed is left armed.
C25_OneTimerArmed ==
    /\ Cardinality(intervals) <= 1
    /\ eqLast.name = "stop" => intervals = {}

\* C28: after destroy() no timer of the poller is armed, its visibilitychange
\* listener is off the document, and no step invokes one of its callbacks.
C28_InertAfterDestroy ==
    destroyed => (intervals = {} /\ ~registered /\ eqLast.invoked = {})

\* C29: remainingItems is remainingInstruments followed by remainingTrays,
\* extraItems is extraInstruments followed by extraTrays, and
\* isItemRemaining(name, type) returns true only for an item of remainingItems.
C29_CombinedIsConcatenation ==
    /\ remainingItems = remainingInstruments \o remainingTrays
    /\ extraItems = extraInstruments \o extraTrays
    /\ (outLast.name = "isItemRemaining" /\ outLast.bool)
          => \E i \in DOMAIN remainingItems :
                /\ remainingItems[i].name = outLast.itemName
                /\ remainingItems[i].type = ToLowerCase(outLast.itemType)

\* C30: a polling tick while scanning is true issues no request, and the
\* response of a status request issued before the scan whose response fills
\* the buckets leaves the buckets as that scan set them.
C30_ScanNotOverwritten ==
    [][/\ (outLast'.name = "tick" /\ scanning) => pending' = pending
       /\ (outLast'.name = "statusNext" /\ shown.kind = "scan" /\ outLast'.req < shown.req)
             => buckets' = buckets]_vars

====
